---- MODULE Spec2Model ----
(***************************************************************************)
(* Progress tracking of the NexusAI upload page (src/unnamed/part_002):    *)
(* startProgressPolling, its simulation interval (runSimulation), its      *)
(* polling interval (the async poll callback), updateProgress and          *)
(* updateStepStatus.                                                       *)
(*                                                                         *)
(* Numbers.  A progress value is kept in units of 1/60 percent, so that    *)
(* 100/6, 95 and 0.8 are all integers (Pct(100) = 6000, one stage = 1000,  *)
(* 0.8 = 48).  Time is Date.now() in milliseconds; the delays the model    *)
(* draws are even, which keeps elapsed/stepDuration * 100/6 exact.         *)
(*                                                                         *)
(* DOM.  The six .step elements and #progressFill / #progressText are      *)
(* taken to exist.  A step element carries at most one of the classes      *)
(* active / completed; an element with neither is written "pending".       *)
(* width is progressFill.style.width.                                      *)
(***************************************************************************)
EXTENDS Integers, Sequences, FiniteSets, TLC

\* ------------------------------------------------------------------ bounds
MaxClock == 12000
MaxSameMs == 1
MaxPolls == 2

\* --------------------------------------------------------- program constants
steps == << "router", "extractor", "classifier", "labeler", "quality", "output" >>
stepDuration == 2000
pollIntervalMs == 2000

N == Len(steps)
StepNames == { steps[i] : i \in 1..N }
NULL == 0

Pct(p) == p * 60
SmallIncrement == Pct(8) \div 10

Min(a, b) == IF a < b THEN a ELSE b
Max(a, b) == IF a > b THEN a ELSE b

\* ------------------------------------------------------------ environment
\* Delay between two firings of the 50 ms simulation interval (timers may be
\* late, and two firings may read the same Date.now(); at most MaxSameMs
\* consecutive firings do).
Delays == { 0, 1000, 2000 }

\* Fields of a task object returned by GET /api/task/<id>.  progress 0 stands
\* for an absent or zero progress, "" for an absent current_step, {} for an
\* absent or empty completed_steps.
TaskStatus == { "running", "completed", "failed" }
TaskProgress == { 0, Pct(10), Pct(40), Pct(100) }
TaskCurrentStep == { "", "output" }
TaskCompletedSteps == { {}, { "router", "extractor" } }
Tasks == [ status : TaskStatus, progress : TaskProgress,
           current_step : TaskCurrentStep, completed_steps : TaskCompletedSteps ]

VARIABLES
    run,                \* number of startProgressPolling invocations so far
    clock,              \* Date.now()
    startedAt,          \* Date.now() when the intervals of the run were created
    progressInterval,   \* module global: NULL or the handle of the live poll interval
    simulationInterval, \* module global: NULL or the handle of the live simulation interval
    currentStepIndex,   \* closure variable of startProgressPolling (0-based)
    stepStartTime,      \* closure variable
    lastProgress,       \* closure variable
    isTransitioning,    \* closure variable
    stepClass,          \* class of every .step element
    width,              \* progressFill.style.width
    hidden,             \* processingStatus has class hidden
    polls,              \* poll callbacks fired so far
    inflight,           \* fetches of /api/task/<id> not yet settled
    displayResultsCalls,\* calls of displayResults from the poll callback
    showErrorCalls,     \* calls of showError from the poll callback
    handedOff,          \* a response with progress > 0 has been applied
    responses,          \* responses processed so far
    lastOp,             \* the callback that ran last
    lastStatus,         \* task.status of the response processed last ("none" before)
    simWrites,          \* widths written by the last runSimulation call, in order
    sameMs              \* consecutive simulation ticks that read the same Date.now()

vars == << run, clock, startedAt, progressInterval, simulationInterval,
           currentStepIndex, stepStartTime, lastProgress, isTransitioning,
           stepClass, width, hidden, polls, inflight, displayResultsCalls,
           showErrorCalls, handedOff, responses, lastOp, lastStatus, simWrites, sameMs >>

\* What the specifications below record about the response processed last, and
\* the text of #errorMessage.  Spec leaves them alone.
VARIABLES
    lastTask,           \* the task object of the response processed last
    lastError,          \* its error field ("" when absent)
    lastRun,            \* the run whose poll callback processed it
    lastId,             \* the number of the poll callback that processed it
    errorMessage        \* errorMessage.textContent

recVars == << lastTask, lastError, lastRun, lastId, errorMessage >>

\* task.error: absent, or a message of the backend.
TaskError == { "", "E1" }
NoTask == [ status |-> "none", progress |-> 0, current_step |-> "", completed_steps |-> {} ]

RecInit ==
    /\ lastTask = NoTask
    /\ lastError = ""
    /\ lastRun = 0
    /\ lastId = 0
    /\ errorMessage = ""

\* State of the React component ProcessingPipeline (src/unnamed/part_001).
\* Its names are prefixed with pp where they would clash with the page's.
VARIABLES
    ppMounted,          \* the component is mounted
    ppEffect,           \* number of runs of the useEffect so far (0 before mount)
    ppCleaned,          \* the effect runs whose cleanup has run
    ppCurrentStep,      \* useState currentStep
    ppProgress,         \* useState progress, in units of 1/180 percent
    ppStatus,           \* useState status
    ppStepStatuses,     \* useState stepStatuses (0-based stage -> status)
    ppIsCompleted,      \* useState isCompleted
    ppTimers,           \* the pending timeouts and live intervals
    ppProgressTimer,    \* per effect run: the stage whose interval progressTimer holds, or -1
    ppStepTimer,        \* per effect run: the stage whose timeout stepTimer holds, or -1
    ppOnCompleteCalls,  \* calls of the onComplete prop
    ppLastOp,           \* the callback that ran last
    ppLastGen           \* the effect run that scheduled it

pipeVars == << ppMounted, ppEffect, ppCleaned, ppCurrentStep, ppProgress, ppStatus,
               ppStepStatuses, ppIsCompleted, ppTimers, ppProgressTimer, ppStepTimer,
               ppOnCompleteCalls, ppLastOp, ppLastGen >>

\* Line 433 and lines 495-503: submitBtn.disabled, true while handleFormSubmit
\* waits for the upload.
VARIABLE submitDisabled

submitVars == << submitDisabled >>

\* The intervals setInterval has created in startProgressPolling and
\* clearInterval has not been called on, by the number of the run that created
\* them.
VARIABLES liveSimulation, livePolling

liveVars == << liveSimulation, livePolling >>

\* simulateQuickProgress (lines 1231-1266): its closure variables, its
\* interval, and the callback it schedules.
VARIABLES
    quickProgress,      \* let progress
    quickStep,          \* let currentStep
    quickInterval,      \* the interval is alive
    quickTicks,         \* firings of the interval so far
    quickScheduled,     \* calls of setTimeout(callback, 500)
    quickCalled         \* runs of the callback

quickVars == << quickProgress, quickStep, quickInterval, quickTicks, quickScheduled,
                quickCalled >>

\* Lines 364-430: the deferred callback of handleFormSubmit that is pending:
\* "frame" (the inner requestAnimationFrame callback), "timeout" (its 150 ms
\* timeout) or "done".
VARIABLE feedback

feedbackVars == << feedback >>

\* The state outside the upload page and its submissions.
sideVars == << pipeVars, quickVars, feedbackVars >>

\* Everything the page's run of one task leaves alone.
otherVars == << sideVars, submitVars, liveVars >>

\* ------------------------------------------------------------ updateStepStatus
\* Lines 779-796: an unknown step name returns early; the classes active,
\* completed and pending are removed and the new one added only if it is
\* active or completed.
updateStepStatus(cls, stepName, status) ==
    IF stepName \notin StepNames THEN cls
    ELSE [cls EXCEPT ![stepName] =
            IF status \in { "active", "completed" } THEN status ELSE "pending"]

RECURSIVE MarkAll(_, _, _)
\* names.forEach(step => updateStepStatus(step, status))
MarkAll(cls, names, status) ==
    IF names = {} THEN cls
    ELSE LET n == CHOOSE x \in names : TRUE
         IN MarkAll(updateStepStatus(cls, n, status), names \ {n}, status)

\* ------------------------------------------------------------ updateProgress
\* Lines 752-777, on the pair (stepClass, width).
updateProgress(d, task) ==
    LET progress == Min(Max(task.progress, 0), Pct(100))
        c1 == IF task.current_step # ""
              THEN updateStepStatus(d.cls, task.current_step, "active")
              ELSE d.cls
        c2 == MarkAll(c1, task.completed_steps, "completed")
    IN [cls |-> c2, width |-> progress]

\* -------------------------------------------------------------- runSimulation
\* Lines 559-683, one call at Date.now() = t, on the record
\*   s = [cls, width, idx, start, last, trans]
\* of the DOM state and the closure variables currentStepIndex, stepStartTime,
\* lastProgress, isTransitioning.  writes lists the widths the call wrote.
baseProgressOf(idx) == (idx * Pct(100)) \div N

stepProgressOf(elapsed) ==
    Min((elapsed * Pct(100)) \div (stepDuration * N), Pct(100) \div N)

\* Lines 564-572: the value written to the progress bar.
simProgress(idx, elapsed, last) ==
    LET progress == Min(baseProgressOf(idx) + stepProgressOf(elapsed), Pct(95))
    IN IF progress <= last THEN last + SmallIncrement ELSE progress

\* Line 585: the guard of the stage transition.
simAdvances(idx, elapsed, trans) ==
    elapsed >= stepDuration /\ idx < N - 1 /\ ~trans

\* Line 674: the "all steps are complete" check, with the index as it is after
\* the transition block and the elapsed time read at the top of the call.
simAllComplete(idx, elapsed) ==
    idx >= N - 1 /\ elapsed >= stepDuration

\* runSimulation moving the stage cursor two stages at a transition.
runSimulation_SkipsStage(s, t) ==
    LET elapsed == t - s.start
        progress == simProgress(s.idx, elapsed, s.last)
        adv == simAdvances(s.idx, elapsed, s.trans)
        idx2 == IF adv THEN Min(s.idx + 2, N - 1) ELSE s.idx
        cls2 == IF adv
                THEN updateStepStatus(
                         updateStepStatus(s.cls, steps[s.idx + 1], "completed"),
                         steps[idx2 + 1], "active")
                ELSE s.cls
    IN [ cls |-> cls2,
         width |-> progress,
         idx |-> idx2,
         start |-> IF adv THEN t ELSE s.start,
         last |-> IF adv THEN baseProgressOf(idx2) ELSE progress,
         trans |-> FALSE,
         writes |-> << progress >> ]

\* Lines 559-683: one call of runSimulation at time t on the simulation state s.
runSimulation(s, t) ==
    LET elapsed == t - s.start
        progress == simProgress(s.idx, elapsed, s.last)
        adv == simAdvances(s.idx, elapsed, s.trans)
        idx2 == IF adv THEN s.idx + 1 ELSE s.idx
        cls2 == IF adv
                THEN updateStepStatus(
                         updateStepStatus(s.cls, steps[s.idx + 1], "completed"),
                         steps[idx2 + 1], "active")
                ELSE s.cls
        start2 == IF adv THEN t ELSE s.start
        last2 == IF adv THEN baseProgressOf(idx2) ELSE progress
        fin == simAllComplete(idx2, elapsed)
    IN [ cls |-> IF fin THEN updateStepStatus(cls2, steps[idx2 + 1], "completed") ELSE cls2,
         width |-> IF fin THEN Pct(100) ELSE progress,
         idx |-> idx2,
         start |-> start2,
         last |-> last2,
         trans |-> FALSE,
         writes |-> IF fin THEN << progress, Pct(100) >> ELSE << progress >> ]

\* ------------------------------------------------------------ the poll callback
\* Lines 700-720: the branch taken when task.progress > 0, on the DOM pair.
\* Lines 706-707 in exact arithmetic.  In IEEE doubles 100/6 is rounded up, so
\* Math.floor(50 / (100/6)) is 2, not 3; 50 is the one in-range progress where
\* the two differ, and TaskProgress leaves it out.
estimatedStepOf(progress) == Min(progress \div (Pct(100) \div N), N - 1)

applyRemoteProgress(d, task) ==
    LET est == estimatedStepOf(task.progress)
        done == MarkAll(d.cls, { steps[i] : i \in 1..est }, "completed")
        act == IF est < N THEN updateStepStatus(done, steps[est + 1], "active") ELSE done
    IN updateProgress([cls |-> act, width |-> d.width], task)

\* Lines 727-729: the DOM writes of the completed branch.
applyCompleted(d, task) ==
    updateProgress([cls |-> MarkAll(d.cls, StepNames, "completed"), width |-> d.width],
                   [task EXCEPT !.progress = Pct(100)])

\* afterTask with the failed branch marking every step like the completed one.
afterTask_FailedMarksAll(d, task) ==
    LET d1 == IF task.progress > 0 THEN applyRemoteProgress(d, task) ELSE d
    IN IF task.status \in { "completed", "failed" } THEN applyCompleted(d1, task) ELSE d1

\* Lines 700-744: the DOM state after one response has been processed.
afterTask(d, task) ==
    LET d1 == IF task.progress > 0 THEN applyRemoteProgress(d, task) ELSE d
    IN IF task.status = "completed" THEN applyCompleted(d1, task) ELSE d1

\* clearsSimulation without the handoff of lines 702-705.
clearsSimulation_TerminalOnly(task) ==
    task.status \in { "completed", "failed" }

\* Lines 701-705, 723-726, 736-739: whether the response clears simulationInterval.
clearsSimulation(task) ==
    task.progress > 0 \/ task.status \in { "completed", "failed" }

\* clearsPolling clearing on every response.
clearsPolling_Always(task) == TRUE

\* clearsPolling that never clears.
clearsPolling_Never(task) == FALSE

\* clearsPolling without lines 740-741 of the failed branch.
clearsPolling_CompletedOnly(task) ==
    task.status = "completed"

\* Lines 731-732, 740-741: whether the response clears progressInterval.
clearsPolling(task) ==
    task.status \in { "completed", "failed" }

\* ------------------------------------------------------------------- Init
\* handleFormSubmit has run showProcessing (lines 355-358, 1123-1167): every
\* step has lost its classes and the bar is at 0%.  While the upload is in
\* flight the nested requestAnimationFrame callback (lines 364-429) may have
\* made the first step active, and its 150 ms timeout may have set 3%.
InitialFeedback == { << "pending", 0 >>, << "active", 0 >>, << "active", Pct(3) >> }

Init ==
    /\ run = 0
    /\ clock = 0
    /\ startedAt = 0
    /\ progressInterval = NULL
    /\ simulationInterval = NULL
    /\ currentStepIndex = 0
    /\ stepStartTime = 0
    /\ lastProgress = 0
    /\ isTransitioning = FALSE
    /\ \E f \in InitialFeedback :
          /\ stepClass = [n \in StepNames |-> IF n = steps[1] THEN f[1] ELSE "pending"]
          /\ width = f[2]
    /\ hidden = FALSE
    /\ polls = 0
    /\ inflight = {}
    /\ displayResultsCalls = 0
    /\ showErrorCalls = 0
    /\ handedOff = FALSE
    /\ responses = 0
    /\ lastOp = "Init"
    /\ lastStatus = "none"
    /\ simWrites = << >>
    /\ sameMs = 0

\* ------------------------------------------------------ startProgressPolling
\* Lines 507-691.  Both globals are cleared, the closure variables are
\* initialised, the first step is made active unless it is, the bar is raised
\* to 3% if below, runSimulation is called once, and both intervals are
\* created.
startProgressPolling ==
    LET first == IF stepClass[steps[1]] # "active"
                 THEN updateStepStatus(stepClass, steps[1], "active")
                 ELSE stepClass
        w == IF width < Pct(3) THEN Pct(3) ELSE width
        s == runSimulation([ cls |-> first, width |-> w, idx |-> 0, start |-> clock,
                             last |-> 0, trans |-> FALSE ], clock)
    IN /\ run' = run + 1
       /\ startedAt' = clock
       /\ hidden' = FALSE
       /\ stepClass' = s.cls
       /\ width' = s.width
       /\ currentStepIndex' = s.idx
       /\ stepStartTime' = s.start
       /\ lastProgress' = s.last
       /\ isTransitioning' = s.trans
       /\ simWrites' = s.writes
       /\ simulationInterval' = run + 1
       /\ progressInterval' = run + 1
       /\ lastOp' = "startProgressPolling"
       /\ sameMs' = 0
       /\ UNCHANGED << clock, polls, inflight, displayResultsCalls, showErrorCalls,
                       handedOff, responses, lastStatus >>

\* One firing of setInterval(runSimulation, 50), dt milliseconds after the
\* previous callback.
SimTick(dt) ==
    /\ simulationInterval # NULL
    /\ clock + dt <= MaxClock
    /\ dt = 0 => sameMs < MaxSameMs
    /\ sameMs' = IF dt = 0 THEN sameMs + 1 ELSE 0
    /\ LET s == runSimulation([ cls |-> stepClass, width |-> width,
                                idx |-> currentStepIndex, start |-> stepStartTime,
                                last |-> lastProgress, trans |-> isTransitioning ],
                              clock + dt)
       IN /\ clock' = clock + dt
          /\ stepClass' = s.cls
          /\ width' = s.width
          /\ currentStepIndex' = s.idx
          /\ stepStartTime' = s.start
          /\ lastProgress' = s.last
          /\ isTransitioning' = s.trans
          /\ simWrites' = s.writes
    /\ lastOp' = "runSimulation"
    /\ UNCHANGED << run, startedAt, progressInterval, simulationInterval, hidden, polls,
                    inflight, displayResultsCalls, showErrorCalls, handedOff,
                    responses, lastStatus >>

\* One firing of the poll interval (line 691-693): the callback starts a fetch
\* and suspends at the await.  The interval fires no earlier than
\* pollIntervalMs after it was created.
PollFire ==
    /\ progressInterval # NULL
    /\ polls < MaxPolls
    /\ clock - startedAt >= pollIntervalMs
    /\ polls' = polls + 1
    /\ inflight' = inflight \cup { [id |-> polls + 1, run |-> progressInterval] }
    /\ lastOp' = "poll"
    /\ UNCHANGED << run, clock, startedAt, progressInterval, simulationInterval,
                    currentStepIndex, stepStartTime, lastProgress, isTransitioning,
                    stepClass, width, hidden, displayResultsCalls, showErrorCalls,
                    handedOff, responses, lastStatus, simWrites, sameMs >>

\* PollFail with a catch block that ends the run: showError, both intervals
\* cleared.
PollFail_Surfaces(r) ==
    /\ r \in inflight
    /\ inflight' = inflight \ { r }
    /\ lastOp' = "pollFailed"
    /\ showErrorCalls' = showErrorCalls + 1
    /\ progressInterval' = NULL
    /\ simulationInterval' = NULL
    /\ hidden' = TRUE
    /\ UNCHANGED << run, clock, startedAt, currentStepIndex, stepStartTime,
                    lastProgress, isTransitioning, stepClass, width, polls,
                    displayResultsCalls, handedOff, responses, lastStatus,
                    simWrites, sameMs >>

\* Lines 693-696, 745-748: the fetch rejects, the status is not ok, or the
\* body does not parse; the catch block logs and returns.
PollFail(r) ==
    /\ r \in inflight
    /\ inflight' = inflight \ { r }
    /\ lastOp' = "pollFailed"
    /\ UNCHANGED << run, clock, startedAt, progressInterval, simulationInterval,
                    currentStepIndex, stepStartTime, lastProgress, isTransitioning,
                    stepClass, width, hidden, polls, displayResultsCalls,
                    showErrorCalls, handedOff, responses, lastStatus, simWrites, sameMs >>

\* Lines 698-744: the fetch of poll r resolves with task and the rest of the
\* callback runs.  Nothing after the await looks at the run or at an earlier
\* terminal response.  displayResults and showError are taken to return
\* normally.
PollResponse(r, task) ==
    /\ r \in inflight
    /\ inflight' = inflight \ { r }
    /\ LET d == afterTask([cls |-> stepClass, width |-> width], task)
       IN /\ stepClass' = d.cls
          /\ width' = d.width
    /\ simulationInterval' = IF clearsSimulation(task) THEN NULL ELSE simulationInterval
    /\ progressInterval' = IF clearsPolling(task) THEN NULL ELSE progressInterval
    /\ displayResultsCalls' = displayResultsCalls + (IF task.status = "completed" THEN 1 ELSE 0)
    /\ showErrorCalls' = showErrorCalls + (IF task.status = "failed" THEN 1 ELSE 0)
    /\ hidden' = IF task.status \in { "completed", "failed" } THEN TRUE ELSE hidden
    /\ handedOff' = (handedOff \/ task.progress > 0)
    /\ responses' = responses + 1
    /\ lastOp' = "response"
    /\ lastStatus' = task.status
    /\ UNCHANGED << run, clock, startedAt, currentStepIndex, stepStartTime,
                    lastProgress, isTransitioning, polls, simWrites, sameMs >>

\* errorShown ignoring task.error.
errorShown_Default(err) == "Processing failed"

\* Line 742: the message handed to showError.
errorShown(err) == IF err # "" THEN err ELSE "Processing failed"

\* Lines 698-744 and 1181-1185: PollResponse, with the response recorded and
\* the text showError writes to #errorMessage.
PollResponseRec(r, task, err) ==
    /\ PollResponse(r, task)
    /\ lastTask' = task
    /\ lastError' = err
    /\ lastRun' = r.run
    /\ lastId' = r.id
    /\ errorMessage' = IF task.status = "failed" THEN errorShown(err) ELSE errorMessage

\* ======================================================================
\* ProcessingPipeline (React component, src/unnamed/part_001)
\* ======================================================================
MaxEffectRuns == 2

\* Lines 4-59.
ppSteps == << "router", "extractor", "classifier", "labeler", "quality", "output" >>
ppN == Len(ppSteps)
Stage == 0 .. (ppN - 1)

\* Lines 73-74.
ppStepDuration == 1500
ppProgressInterval == 50

\* progress is kept in units of 1/180 percent: one stage is 3000 units and one
\* progress increment 100, both exact.
PPct(p) == p * 180

\* Lines 99-101.
targetProgress(stepIndex) == ((stepIndex + 1) * PPct(100)) \div ppN
startProgress(stepIndex) == (stepIndex * PPct(100)) \div ppN
ticksPerStep == ppStepDuration \div ppProgressInterval
progressIncrement(stepIndex) ==
    (targetProgress(stepIndex) - startProgress(stepIndex)) \div ticksPerStep

\* The firings of one interval are taken several at a time, with no other
\* callback between them: half a stage's worth, or a whole stage's worth.
HalfStep == { ticksPerStep \div 2 }
WholeStep == { ticksPerStep }

\* A timer is identified by its kind, the effect run that created it and the
\* stage it belongs to; an interval also carries its closure's currentProgress.
Timer(k, g, i, c) == [kind |-> k, gen |-> g, step |-> i, cur |-> c]
TimerIds(S) == { << t.kind, t.gen, t.step >> : t \in S }

\* Lines 62-68: the state before the component is mounted.
PipeInit ==
    /\ ppMounted = FALSE
    /\ ppEffect = 0
    /\ ppCleaned = {}
    /\ ppCurrentStep = 0
    /\ ppProgress = 0
    /\ ppStatus = "In Progress"
    /\ ppStepStatuses = [i \in Stage |-> "pending"]
    /\ ppIsCompleted = FALSE
    /\ ppTimers = {}
    /\ ppProgressTimer = [g \in 1 .. MaxEffectRuns |-> -1]
    /\ ppStepTimer = [g \in 1 .. MaxEffectRuns |-> -1]
    /\ ppOnCompleteCalls = 0
    /\ ppLastOp = "Init"
    /\ ppLastGen = 0

\* A state setter: React drops the update of an unmounted component.
setState(mounted, new, old) == IF mounted THEN new ELSE old

\* Lines 78-128: startStep(stepIndex) of effect run g, with the timers left
\* by the caller.
startStep(g, stepIndex, timers, mounted) ==
    IF stepIndex >= ppN
    THEN /\ ppStatus' = setState(mounted, "Completed", ppStatus)
         /\ ppIsCompleted' = setState(mounted, TRUE, ppIsCompleted)
         /\ ppProgress' = setState(mounted, PPct(100), ppProgress)
         /\ ppTimers' = timers \cup { Timer("complete", g, stepIndex, 0) }
         /\ UNCHANGED << ppStepStatuses, ppCurrentStep, ppProgressTimer, ppStepTimer >>
    ELSE /\ ppStepStatuses' =
              setState(mounted, [ppStepStatuses EXCEPT ![stepIndex] = "active"], ppStepStatuses)
         /\ ppCurrentStep' = setState(mounted, stepIndex, ppCurrentStep)
         /\ ppTimers' = timers \cup { Timer("progress", g, stepIndex, startProgress(stepIndex)),
                                      Timer("step", g, stepIndex, 0) }
         /\ ppProgressTimer' = [ppProgressTimer EXCEPT ![g] = stepIndex]
         /\ ppStepTimer' = [ppStepTimer EXCEPT ![g] = stepIndex]
         /\ UNCHANGED << ppStatus, ppIsCompleted, ppProgress >>

\* clearInterval(progressTimer) of effect run g.
clearProgressTimer(g, timers) ==
    { t \in timers : ~(t.kind = "progress" /\ t.gen = g /\ t.step = ppProgressTimer[g]) }

\* Lines 134-137: the cleanup of effect run g.
cleanup(g, timers) ==
    { t \in clearProgressTimer(g, timers) :
          ~(t.kind = "step" /\ t.gen = g /\ t.step = ppStepTimer[g]) }

\* Effect run g has called startStep(steps.length).
reachedEnd(g) ==
    /\ ppStepTimer[g] = ppN - 1
    /\ ~ \E t \in ppTimers : t.gen = g /\ t.kind \in { "step", "next" }

\* The effect runs cleaned up before they reached the end of the pipeline.
cleanedEarly(g) == IF reachedEnd(g) THEN ppCleaned ELSE ppCleaned \cup { g }

\* Lines 70-131: the component mounts with autoStart true and the effect runs.
Mount ==
    /\ ~ppMounted
    /\ ppEffect = 0
    /\ ppMounted' = TRUE
    /\ ppEffect' = 1
    /\ startStep(1, 0, ppTimers, TRUE)
    /\ ppLastOp' = "mount"
    /\ ppLastGen' = 1
    /\ UNCHANGED << ppCleaned, ppOnCompleteCalls >>

\* Line 138: a dependency changed (the parent passed a new onComplete
\* function): the cleanup of the last run, then the effect again.
EffectRerun ==
    /\ ppMounted
    /\ ppEffect >= 1
    /\ ppEffect < MaxEffectRuns
    /\ ppCleaned' = cleanedEarly(ppEffect)
    /\ ppEffect' = ppEffect + 1
    /\ startStep(ppEffect + 1, 0, cleanup(ppEffect, ppTimers), TRUE)
    /\ ppLastOp' = "effect"
    /\ ppLastGen' = ppEffect + 1
    /\ UNCHANGED << ppMounted, ppOnCompleteCalls >>

\* Lines 134-137: the component unmounts.
Unmount ==
    /\ ppMounted
    /\ ppMounted' = FALSE
    /\ ppCleaned' = cleanedEarly(ppEffect)
    /\ ppTimers' = cleanup(ppEffect, ppTimers)
    /\ ppLastOp' = "unmount"
    /\ ppLastGen' = ppEffect
    /\ UNCHANGED << ppEffect, ppCurrentStep, ppProgress, ppStatus, ppStepStatuses,
                    ppIsCompleted, ppProgressTimer, ppStepTimer, ppOnCompleteCalls >>

\* Lines 106-113: n firings in a row of a progress interval.  Once
\* currentProgress has reached the target every firing stores the target and
\* clears progressTimer, so the firings after that one repeat it.
ProgressTick(t, n) ==
    /\ t \in ppTimers
    /\ t.kind = "progress"
    /\ LET c == t.cur + n * progressIncrement(t.step)
           done == c >= targetProgress(t.step)
           currentProgress == IF done THEN targetProgress(t.step) ELSE c
           ticked == (ppTimers \ { t }) \cup { [t EXCEPT !.cur = currentProgress] }
       IN  /\ ppTimers' = IF done THEN clearProgressTimer(t.gen, ticked) ELSE ticked
           /\ ppProgress' = setState(ppMounted, currentProgress, ppProgress)
    /\ ppLastOp' = "progress"
    /\ ppLastGen' = t.gen
    /\ UNCHANGED << ppMounted, ppEffect, ppCleaned, ppCurrentStep, ppStatus, ppStepStatuses,
                    ppIsCompleted, ppProgressTimer, ppStepTimer, ppOnCompleteCalls >>

\* Mutant of StepTimeout: the stage is not marked completed.
StepTimeout_NoComplete(t) ==
    /\ t \in ppTimers
    /\ t.kind = "step"
    /\ ppTimers' = (ppTimers \ { t }) \cup { Timer("next", t.gen, t.step, 0) }
    /\ ppLastOp' = "step"
    /\ ppLastGen' = t.gen
    /\ UNCHANGED << ppMounted, ppEffect, ppCleaned, ppCurrentStep, ppProgress, ppStatus,
                    ppStepStatuses, ppIsCompleted, ppProgressTimer, ppStepTimer,
                    ppOnCompleteCalls >>

\* Lines 116-127: the step timeout marks its stage completed and schedules the
\* next stage 200 ms later with a timeout no variable holds.
StepTimeout(t) ==
    /\ t \in ppTimers
    /\ t.kind = "step"
    /\ ppStepStatuses' =
          setState(ppMounted, [ppStepStatuses EXCEPT ![t.step] = "completed"], ppStepStatuses)
    /\ ppTimers' = (ppTimers \ { t }) \cup { Timer("next", t.gen, t.step, 0) }
    /\ ppLastOp' = "step"
    /\ ppLastGen' = t.gen
    /\ UNCHANGED << ppMounted, ppEffect, ppCleaned, ppCurrentStep, ppProgress, ppStatus,
                    ppIsCompleted, ppProgressTimer, ppStepTimer, ppOnCompleteCalls >>

\* Lines 124-126: the 200 ms timeout starts the next stage.
NextTimeout(t) ==
    /\ t \in ppTimers
    /\ t.kind = "next"
    /\ startStep(t.gen, t.step + 1, ppTimers \ { t }, ppMounted)
    /\ ppLastOp' = "next"
    /\ ppLastGen' = t.gen
    /\ UNCHANGED << ppMounted, ppEffect, ppCleaned, ppOnCompleteCalls >>

\* Line 85: the 500 ms timeout calls onComplete.
CompleteTimeout(t) ==
    /\ t \in ppTimers
    /\ t.kind = "complete"
    /\ ppOnCompleteCalls' = ppOnCompleteCalls + 1
    /\ ppTimers' = ppTimers \ { t }
    /\ ppLastOp' = "complete"
    /\ ppLastGen' = t.gen
    /\ UNCHANGED << ppMounted, ppEffect, ppCleaned, ppCurrentStep, ppProgress, ppStatus,
                    ppStepStatuses, ppIsCompleted, ppProgressTimer, ppStepTimer >>

\* Lines 140-144.
getStepStatus(index) ==
    IF index < ppCurrentStep THEN "completed"
    ELSE IF index = ppCurrentStep THEN ppStepStatuses[index]
    ELSE "pending"

\* The state outside the upload page before anything runs.
SubmitInit == submitDisabled = TRUE
LiveInit == liveSimulation = {} /\ livePolling = {}
QuickInit ==
    /\ quickProgress = 0
    /\ quickStep = 0
    /\ quickInterval = FALSE
    /\ quickTicks = 0
    /\ quickScheduled = 0
    /\ quickCalled = 0
OtherInit == PipeInit /\ SubmitInit /\ LiveInit /\ QuickInit /\ feedback = "done"

\* ======================================================================
\* Specifications of the upload page
\* ======================================================================
\* One run: startProgressPolling is invoked once.
Next ==
    \/ (run = 0 /\ startProgressPolling /\ UNCHANGED << recVars, otherVars >>)
    \/ \E dt \in Delays : SimTick(dt) /\ UNCHANGED << recVars, otherVars >>
    \/ PollFire /\ UNCHANGED << recVars, otherVars >>
    \/ \E r \in inflight : PollFail(r) /\ UNCHANGED << recVars, otherVars >>
    \/ \E r \in inflight : \E task \in Tasks : PollResponse(r, task) /\ UNCHANGED << recVars, otherVars >>

allVars == << vars, recVars, otherVars >>

\* The state when the first upload is under way.
InitPage == Init /\ RecInit /\ OtherInit

Spec == InitPage /\ [][Next]_allVars

\* One run, with every processed response recorded.  The simulation ticks once
\* per stage here: the responses meet every stage the simulation can be in.
RecDelays == { stepDuration }

NextRec ==
    \/ (run = 0 /\ startProgressPolling /\ UNCHANGED << recVars, otherVars >>)
    \/ \E dt \in RecDelays : SimTick(dt) /\ UNCHANGED << recVars, otherVars >>
    \/ PollFire /\ UNCHANGED << recVars, otherVars >>
    \/ \E r \in inflight : PollFail(r) /\ UNCHANGED << recVars, otherVars >>
    \/ \E r \in inflight : \E task \in Tasks :
          \E err \in (IF task.status = "failed" THEN TaskError ELSE { "" }) :
             PollResponseRec(r, task, err) /\ UNCHANGED otherVars

SpecRec == InitPage /\ [][NextRec]_allVars

\* ------------------------------------------------------- several submissions
MaxRuns == 2

\* Lines 472-475 and 495-503: the upload answers with a task id,
\* startProgressPolling is called and the submit button is enabled again.
UploadResolved ==
    /\ submitDisabled
    /\ startProgressPolling
    /\ submitDisabled' = FALSE

\* Lines 331-438: the form is submitted again.  showProcessing shows the view,
\* removes active and completed from every step and empties the bar; f is what
\* the requestAnimationFrame block of lines 364-430 has written when the
\* upload answers.  The intervals of the run before are left running.
Resubmit(f) ==
    /\ ~submitDisabled
    /\ run < MaxRuns
    /\ submitDisabled' = TRUE
    /\ hidden' = FALSE
    /\ stepClass' = [n \in StepNames |-> IF n = steps[1] THEN f[1] ELSE "pending"]
    /\ width' = f[2]
    /\ lastOp' = "submit"
    /\ UNCHANGED << run, clock, startedAt, progressInterval, simulationInterval,
                    currentStepIndex, stepStartTime, lastProgress, isTransitioning,
                    polls, inflight, displayResultsCalls, showErrorCalls, handedOff,
                    responses, lastStatus, simWrites, sameMs >>

NextMulti ==
    \/ UploadResolved /\ UNCHANGED << recVars, sideVars, liveVars >>
    \/ \E f \in InitialFeedback : Resubmit(f) /\ UNCHANGED << recVars, sideVars, liveVars >>
    \/ \E dt \in RecDelays : SimTick(dt) /\ UNCHANGED << recVars, otherVars >>
    \/ PollFire /\ UNCHANGED << recVars, otherVars >>
    \/ \E r \in inflight : PollFail(r) /\ UNCHANGED << recVars, otherVars >>
    \/ \E r \in inflight : \E task \in Tasks :
          \E err \in (IF task.status = "failed" THEN TaskError ELSE { "" }) :
             PollResponseRec(r, task, err) /\ UNCHANGED otherVars

SpecMulti == InitPage /\ [][NextMulti]_allVars

\* ------------------------------------------------------ the intervals alive
\* clearInterval(h) on the intervals alive; of a null handle it is not called.
clearInterval(live, h) == live \ { h }

\* startProgressPolling without lines 510-517.
clearPrevious_Skipped(live, h) == live

\* Lines 510-517: startProgressPolling clears the interval a handle holds.
clearPrevious(live, h) == clearInterval(live, h)

\* Lines 507-691 and 495-503 with the intervals cleared and created.
UploadResolvedLive ==
    /\ UploadResolved
    /\ liveSimulation' = clearPrevious(liveSimulation, simulationInterval) \cup { simulationInterval' }
    /\ livePolling' = clearPrevious(livePolling, progressInterval) \cup { progressInterval' }

\* Lines 698-744 with the intervals cleared.
PollResponseLive(r, task) ==
    /\ PollResponse(r, task)
    /\ liveSimulation' = IF clearsSimulation(task)
                         THEN clearInterval(liveSimulation, simulationInterval)
                         ELSE liveSimulation
    /\ livePolling' = IF clearsPolling(task)
                      THEN clearInterval(livePolling, progressInterval)
                      ELSE livePolling

\* Several submissions.  A tick is a firing of the interval simulationInterval
\* holds, a poll one of the interval progressInterval holds.
NextLeak ==
    \/ UploadResolvedLive /\ UNCHANGED << recVars, sideVars >>
    \/ \E f \in InitialFeedback : Resubmit(f) /\ UNCHANGED << recVars, sideVars, liveVars >>
    \/ \E dt \in RecDelays : SimTick(dt) /\ UNCHANGED << recVars, otherVars >>
    \/ PollFire /\ UNCHANGED << recVars, otherVars >>
    \/ \E r \in inflight : PollFail(r) /\ UNCHANGED << recVars, otherVars >>
    \/ \E r \in inflight : \E task \in Tasks :
          PollResponseLive(r, task) /\ UNCHANGED << recVars, sideVars, submitVars >>

SpecLeak == InitPage /\ [][NextLeak]_allVars

\* ------------------------------------------------------ simulateQuickProgress
\* Line 1242: the percent one firing adds.
quickIncrement == 15

\* quickDone looking at the steps only.
quickDone_StepsOnly(progress, currentStep) == currentStep >= N

\* Line 1259.
quickDone(progress, currentStep) == progress >= Pct(100) /\ currentStep >= N

\* Lines 1236-1264: one firing of the interval on the DOM pair d and the
\* closure variables progress and currentStep.
quickTick(d, progress, currentStep) ==
    LET p == Min(progress + Pct(quickIncrement), Pct(100))
        moves == currentStep < N
        prev == IF moves /\ currentStep > 0
                THEN updateStepStatus(d.cls, steps[currentStep], "completed")
                ELSE d.cls
        cur == IF moves THEN updateStepStatus(prev, steps[currentStep + 1], "active") ELSE prev
        step == IF moves THEN currentStep + 1 ELSE currentStep
        done == quickDone(p, step)
    IN [ cls |-> IF done THEN MarkAll(cur, StepNames, "completed") ELSE cur,
         width |-> p,
         progress |-> p,
         step |-> step,
         done |-> done ]

\* Lines 476-487 and 495-503: the upload answers with the result itself;
\* simulateQuickProgress creates its interval and the submit button is
\* enabled again.
simulateQuickProgress ==
    /\ submitDisabled
    /\ run = 0
    /\ quickTicks = 0
    /\ submitDisabled' = FALSE
    /\ quickProgress' = 0
    /\ quickStep' = 0
    /\ quickInterval' = TRUE
    /\ lastOp' = "simulateQuickProgress"
    /\ UNCHANGED << quickTicks, quickScheduled, quickCalled >>
    /\ UNCHANGED << run, clock, startedAt, progressInterval, simulationInterval,
                    currentStepIndex, stepStartTime, lastProgress, isTransitioning,
                    stepClass, width, hidden, polls, inflight, displayResultsCalls,
                    showErrorCalls, handedOff, responses, lastStatus, simWrites, sameMs >>

\* Lines 1236-1264: the interval fires.
QuickTick ==
    /\ quickInterval
    /\ LET q == quickTick([cls |-> stepClass, width |-> width], quickProgress, quickStep)
       IN /\ stepClass' = q.cls
          /\ width' = q.width
          /\ quickProgress' = q.progress
          /\ quickStep' = q.step
          /\ quickInterval' = ~q.done
          /\ quickScheduled' = quickScheduled + (IF q.done THEN 1 ELSE 0)
    /\ quickTicks' = quickTicks + 1
    /\ lastOp' = "quickTick"
    /\ UNCHANGED << quickCalled, submitDisabled >>
    /\ UNCHANGED << run, clock, startedAt, progressInterval, simulationInterval,
                    currentStepIndex, stepStartTime, lastProgress, isTransitioning,
                    hidden, polls, inflight, displayResultsCalls, showErrorCalls,
                    handedOff, responses, lastStatus, simWrites, sameMs >>

\* Lines 478-486: the callback runs 500 ms after it was scheduled:
\* displayResults(result) and hideProcessing().
QuickCallback ==
    /\ quickCalled < quickScheduled
    /\ quickCalled' = quickCalled + 1
    /\ displayResultsCalls' = displayResultsCalls + 1
    /\ hidden' = TRUE
    /\ lastOp' = "quickCallback"
    /\ UNCHANGED << quickProgress, quickStep, quickInterval, quickTicks, quickScheduled,
                    submitDisabled >>
    /\ UNCHANGED << run, clock, startedAt, progressInterval, simulationInterval,
                    currentStepIndex, stepStartTime, lastProgress, isTransitioning,
                    stepClass, width, polls, inflight, showErrorCalls, handedOff,
                    responses, lastStatus, simWrites, sameMs >>

\* One submission: the upload answers with a task id (lines 472-475) or with
\* the result (lines 476-487).  The deferred callbacks of lines 364-430 have
\* run or not when it answers, and do not run after.
NextQuick ==
    \/ (run = 0 /\ ~quickInterval /\ quickTicks = 0 /\ UploadResolved
           /\ UNCHANGED << recVars, sideVars, liveVars >>)
    \/ simulateQuickProgress /\ UNCHANGED << recVars, pipeVars, feedbackVars, liveVars >>
    \/ QuickTick /\ UNCHANGED << recVars, pipeVars, feedbackVars, liveVars >>
    \/ QuickCallback /\ UNCHANGED << recVars, pipeVars, feedbackVars, liveVars >>
    \/ \E dt \in RecDelays : SimTick(dt) /\ UNCHANGED << recVars, otherVars >>
    \/ PollFire /\ UNCHANGED << recVars, otherVars >>
    \/ \E r \in inflight : PollFail(r) /\ UNCHANGED << recVars, otherVars >>
    \/ \E r \in inflight : \E task \in Tasks : PollResponse(r, task) /\ UNCHANGED << recVars, otherVars >>

SpecQuick == InitPage /\ [][NextQuick]_allVars

\* ------------------------------------------- the deferred initial feedback
\* Lines 365-427: the inner requestAnimationFrame callback makes the first
\* step active, whatever class it has, empties the bar and sets the 150 ms
\* timeout.
FeedbackFrame ==
    /\ feedback = "frame"
    /\ feedback' = "timeout"
    /\ stepClass' = [stepClass EXCEPT ![steps[1]] = "active"]
    /\ width' = 0
    /\ lastOp' = "feedbackFrame"
    /\ UNCHANGED << run, clock, startedAt, progressInterval, simulationInterval,
                    currentStepIndex, stepStartTime, lastProgress, isTransitioning,
                    hidden, polls, inflight, displayResultsCalls, showErrorCalls,
                    handedOff, responses, lastStatus, simWrites, sameMs >>

\* Lines 419-424: the 150 ms timeout sets the bar to 3%.
FeedbackTimeout ==
    /\ feedback = "timeout"
    /\ feedback' = "done"
    /\ width' = Pct(3)
    /\ lastOp' = "feedbackTimeout"
    /\ UNCHANGED << run, clock, startedAt, progressInterval, simulationInterval,
                    currentStepIndex, stepStartTime, lastProgress, isTransitioning,
                    stepClass, hidden, polls, inflight, displayResultsCalls,
                    showErrorCalls, handedOff, responses, lastStatus, simWrites, sameMs >>

\* Lines 355-364: handleFormSubmit has run showProcessing and asked for the
\* animation frame; the upload is under way.
InitFeedback ==
    /\ Init /\ width = 0 /\ stepClass[steps[1]] = "pending"
    /\ RecInit
    /\ PipeInit
    /\ SubmitInit
    /\ LiveInit
    /\ QuickInit
    /\ feedback = "frame"

\* One run of a task, with the deferred callbacks firing at any time.
NextFeedback ==
    \/ FeedbackFrame /\ UNCHANGED << recVars, pipeVars, quickVars, submitVars, liveVars >>
    \/ FeedbackTimeout /\ UNCHANGED << recVars, pipeVars, quickVars, submitVars, liveVars >>
    \/ (run = 0 /\ UploadResolved /\ UNCHANGED << recVars, sideVars, liveVars >>)
    \/ \E dt \in RecDelays : SimTick(dt) /\ UNCHANGED << recVars, otherVars >>
    \/ PollFire /\ UNCHANGED << recVars, otherVars >>
    \/ \E r \in inflight : PollFail(r) /\ UNCHANGED << recVars, otherVars >>
    \/ \E r \in inflight : \E task \in Tasks : PollResponse(r, task) /\ UNCHANGED << recVars, otherVars >>

SpecFeedback == InitFeedback /\ [][NextFeedback]_allVars

\* ------------------------------------------------- one run, fairly scheduled
\* One run whose status endpoint answers completed or failed in the end: the
\* request of the last poll the bound allows does not fail and is answered
\* with a terminal status.  The earlier requests fail or are answered with
\* any task.
LiveStart == run = 0 /\ startProgressPolling /\ UNCHANGED << recVars, otherVars >>
LiveTick == \E dt \in RecDelays : SimTick(dt) /\ UNCHANGED << recVars, otherVars >>
LivePoll == PollFire /\ UNCHANGED << recVars, otherVars >>
LiveFail ==
    \E r \in inflight : r.id < MaxPolls /\ PollFail(r) /\ UNCHANGED << recVars, otherVars >>
LiveResponse ==
    \E r \in inflight : \E task \in Tasks :
        /\ r.id = MaxPolls => task.status \in { "completed", "failed" }
        /\ PollResponse(r, task)
        /\ UNCHANGED << recVars, otherVars >>

NextLive == LiveStart \/ LiveTick \/ LivePoll \/ LiveFail \/ LiveResponse

\* The upload answers, the two intervals fire while they are live, and every
\* request is settled.
SpecLive ==
    /\ InitPage
    /\ [][NextLive]_allVars
    /\ WF_allVars(LiveStart)
    /\ WF_allVars(LiveTick)
    /\ WF_allVars(LivePoll)
    /\ WF_allVars(LiveFail \/ LiveResponse)

\* ------------------------------------------- ProcessingPipeline: specifications
pageVars == << vars, recVars, submitVars, liveVars, quickVars, feedbackVars >>

\* The component before it is mounted; the upload page is left alone while
\* the component is studied.
InitPipe ==
    /\ Init /\ width = 0 /\ stepClass[steps[1]] = "pending"
    /\ RecInit
    /\ SubmitInit
    /\ LiveInit
    /\ QuickInit
    /\ feedback = "done"
    /\ PipeInit

\* The component is mounted once and its effect runs once.
NextPipeOnce ==
    \/ Mount /\ UNCHANGED pageVars
    \/ \E t \in ppTimers : \E n \in HalfStep : ProgressTick(t, n) /\ UNCHANGED pageVars
    \/ \E t \in ppTimers : StepTimeout(t) /\ UNCHANGED pageVars
    \/ \E t \in ppTimers : NextTimeout(t) /\ UNCHANGED pageVars
    \/ \E t \in ppTimers : CompleteTimeout(t) /\ UNCHANGED pageVars

SpecPipeOnce == InitPipe /\ [][NextPipeOnce]_allVars

\* Lines 106-116: the interval of a stage is created before the stage's
\* timeout and its last firing is due when the timeout is, so with timers
\* that run on time the interval has ended when the timeout runs.
onTime(t) ==
    ~ \E u \in ppTimers : u.kind = "progress" /\ u.gen = t.gen /\ u.step = t.step

\* The component with dependency changes and unmounting, its timers on time.
NextPipe ==
    \/ Mount /\ UNCHANGED pageVars
    \/ EffectRerun /\ UNCHANGED pageVars
    \/ Unmount /\ UNCHANGED pageVars
    \/ \E t \in ppTimers : \E n \in WholeStep : ProgressTick(t, n) /\ UNCHANGED pageVars
    \/ \E t \in ppTimers : onTime(t) /\ StepTimeout(t) /\ UNCHANGED pageVars
    \/ \E t \in ppTimers : NextTimeout(t) /\ UNCHANGED pageVars
    \/ \E t \in ppTimers : CompleteTimeout(t) /\ UNCHANGED pageVars

SpecPipe == InitPipe /\ [][NextPipe]_allVars

\* ======================================================================
\* Properties
\* ======================================================================
ActiveSteps == { n \in StepNames : stepClass[n] = "active" }
AllCompleted == \A n \in StepNames : stepClass[n] = "completed"
TerminalCalls == displayResultsCalls + showErrorCalls

\* C1: within a started run the width of the progress bar never decreases from
\* one callback (simulation tick or processed poll response) to the next.
C1_ProgressNeverDecreases == [][run > 0 => width' >= width]_vars

\* C2: in every reachable state at most one step element has class active.
C2_AtMostOneActive == Cardinality(ActiveSteps) <= 1

\* C3: the terminal handling of the poll callback (displayResults or showError,
\* then hideProcessing) runs at most once in a run.
C3_TerminalHandledOnce == TerminalCalls <= 1

\* C4: displayResults and showError are never both called from the poll
\* callback in one run.
C4_NotBothHandlers == ~(displayResultsCalls > 0 /\ showErrorCalls > 0)

\* C5: once a response with progress > 0 has been applied, simulationInterval
\* is null and stays null, and no runSimulation callback runs any more, also
\* after later poll failures.
C5_NoTickAfterHandoff ==
    /\ [](handedOff => simulationInterval = NULL)
    /\ [][handedOff => lastOp' # "runSimulation"]_vars

\* C5 witness: the handoff has happened, polling goes on, and a later poll has
\* failed.
C5_Witness ==
    /\ handedOff
    /\ lastOp = "pollFailed"
    /\ progressInterval # NULL
    /\ simulationInterval = NULL

\* C6: right after a response with status completed has been processed, every
\* step is completed and the bar is at 100%, whatever else the response holds.
C6_CompletedForcesAll ==
    (lastOp = "response" /\ lastStatus = "completed") => (AllCompleted /\ width = Pct(100))

\* C7: after the first terminal response has been processed, no later callback
\* changes the bar or the class of any step.
C7_NothingAfterTerminal ==
    [][TerminalCalls > 0 => (width' = width /\ stepClass' = stepClass)]_vars

\* C8: in a started run the bar is at 100% exactly when a response with status
\* completed has been processed.
C8_HundredIffCompleted ==
    run > 0 => ((width = Pct(100)) <=> (displayResultsCalls > 0))

\* C9: every width a runSimulation call writes is at most 95%.
C9_SimulationCappedAt95 ==
    \A i \in 1..Len(simWrites) : simWrites[i] <= Pct(95)

\* C10: while no poll response has been applied, the simulation never marks the
\* last step completed (it is active once the cursor has reached it), and the
\* simulation ends nothing: both intervals stay live and the processing view
\* stays shown.
C10_LastStageStaysActive ==
    (run > 0 /\ responses = 0) =>
        /\ stepClass[steps[N]] # "completed"
        /\ (currentStepIndex = N - 1 => stepClass[steps[N]] = "active")
        /\ simulationInterval # NULL
        /\ progressInterval # NULL
        /\ ~hidden

\* C11: a poll that fails (fetch rejects, status not ok, body does not parse)
\* changes neither the bar nor any step, calls no handler, leaves the view
\* shown as it is and both interval handles as they are, so that the next
\* poll still fires.
C11_PollFailureIsSilent ==
    [][lastOp' = "pollFailed" =>
         /\ width' = width
         /\ stepClass' = stepClass
         /\ showErrorCalls' = showErrorCalls
         /\ displayResultsCalls' = displayResultsCalls
         /\ hidden' = hidden
         /\ progressInterval' = progressInterval
         /\ simulationInterval' = simulationInterval]_vars

\* C11 witness: a poll has failed while both intervals are live, and the poll
\* interval can fire again.
C11_Witness ==
    /\ lastOp = "pollFailed"
    /\ progressInterval # NULL
    /\ simulationInterval # NULL
    /\ showErrorCalls = 0
    /\ ENABLED PollFire

\* C12: a response with status failed shows task.error in #errorMessage (the
\* text "Processing failed" when the field is absent), calls showError once and
\* displayResults not at all, and hides the processing view.
C12_FailureSurfaced ==
    /\ []((lastOp = "response" /\ lastStatus = "failed") =>
            /\ errorMessage = (IF lastError = "" THEN "Processing failed" ELSE lastError)
            /\ hidden)
    /\ [][(lastOp' = "response" /\ lastStatus' = "failed") =>
            /\ showErrorCalls' = showErrorCalls + 1
            /\ displayResultsCalls' = displayResultsCalls]_allVars

\* C12 witness: a failed response carrying the error "E1" has been processed.
C12_Witness ==
    /\ lastOp = "response"
    /\ lastStatus = "failed"
    /\ lastError = "E1"
    /\ errorMessage = "E1"
    /\ showErrorCalls = 1
    /\ hidden

\* C13 as claimed: a response with status failed leaves the class of every
\* step as it was, whatever its other fields.
C13_FailedLeavesStages ==
    [][(lastOp' = "response" /\ lastStatus' = "failed") => stepClass' = stepClass]_allVars

\* C13 amended: a failed response without a progress greater than 0 leaves the
\* class of every step as it was (its current_step and completed_steps are not
\* read); one with progress > 0 changes the steps exactly as a running
\* response with the same fields does.
C13_FailedBranchAddsNothing ==
    [][(lastOp' = "response" /\ lastStatus' = "failed") =>
         stepClass' = IF lastTask'.progress > 0
                      THEN afterTask([cls |-> stepClass, width |-> width],
                                     [lastTask' EXCEPT !.status = "running"]).cls
                      ELSE stepClass]_allVars

\* C13 witness: a failed response with no progress but with current_step and
\* completed_steps has been processed, and the steps it names were not touched.
C13_Witness ==
    /\ lastOp = "response"
    /\ lastStatus = "failed"
    /\ lastTask.progress = 0
    /\ lastTask.current_step = "output"
    /\ lastTask.completed_steps # {}
    /\ stepClass["output"] = "pending"
    /\ stepClass["extractor"] = "active"

\* C14: within a started run a step that is completed never becomes active or
\* pending again.
C14_CompletedIsFinal ==
    [][run > 0 =>
         \A n \in StepNames : stepClass[n] = "completed" => stepClass'[n] = "completed"]_vars

\* C15: in every reachable state, if step i is active or completed then every
\* step before it is completed.
C15_PrefixCompleted ==
    \A i \in 1..N : stepClass[steps[i]] \in { "active", "completed" } =>
        \A j \in 1..(i - 1) : stepClass[steps[j]] = "completed"

\* C16: right after a response with status completed or failed has been
\* processed, simulationInterval and progressInterval are both null.
C16_TerminalClearsBoth ==
    (lastOp = "response" /\ lastStatus \in { "completed", "failed" }) =>
        (simulationInterval = NULL /\ progressInterval = NULL)

\* C16 witness: the first response processed in the run is a failed one with
\* no progress, so the simulation was still running when it arrived.
C16_Witness ==
    /\ lastOp = "response"
    /\ lastStatus = "failed"
    /\ ~handedOff
    /\ responses = 1
    /\ simulationInterval = NULL
    /\ progressInterval = NULL

\* ------------------------------------------------------ ProcessingPipeline
PipelineCallbacks == { "progress", "step", "next", "complete" }
ActiveStages == { i \in Stage : getStepStatus(i) = "active" }

\* C17: once the cleanup of an effect run has run before that run reached the
\* end of the pipeline, a callback scheduled by that run changes neither
\* progress, the step statuses nor the current step, starts no timer and does
\* not call onComplete.
C17_CleanupSilences ==
    [][ (ppLastOp' \in PipelineCallbacks /\ ppLastGen' \in ppCleaned)
          => /\ UNCHANGED << ppProgress, ppStepStatuses, ppCurrentStep, ppOnCompleteCalls >>
             /\ TimerIds(ppTimers') \subseteq TimerIds(ppTimers) ]_allVars

\* C18: onComplete is called at most once, also when the effect is re-run.
C18_OnCompleteOnce == ppOnCompleteCalls <= 1

C20_StaleResponseIsIgnored ==
    [][ (lastOp' = "response" /\ lastRun' < run)
          => UNCHANGED << simulationInterval, progressInterval, width, stepClass, hidden,
                          displayResultsCalls, showErrorCalls, errorMessage >> ]_allVars

\* ------------------------------------------- ordering, simulation, lifetime
\* C21: the responses of one run are processed in the order in which their
\* poll callbacks fired: a processed response belongs to a later poll than
\* every response processed before it.
C21_ResponsesInOrder ==
    [][ lastOp' = "response" => lastId' > lastId ]_allVars

\* C22: the stage cursor moves by at most one per step and stays below N; the
\* tick that moves it from i to i+1 leaves stage i completed and stage i+1
\* marked (active, or completed already when i+1 is the last stage); a tick
\* that does not move it marks no stage before the last.
C22_BoundaryCrossedOnce ==
    /\ [](currentStepIndex <= N - 1)
    /\ [][ currentStepIndex' \in { currentStepIndex, currentStepIndex + 1 } ]_allVars
    /\ [][ (lastOp' = "runSimulation" /\ currentStepIndex' = currentStepIndex + 1)
             => /\ stepClass'[steps[currentStepIndex + 1]] = "completed"
                /\ stepClass'[steps[currentStepIndex + 2]] =
                      (IF currentStepIndex + 2 = N THEN "completed" ELSE "active")
                /\ \A i \in 1 .. N :
                      i \notin { currentStepIndex + 1, currentStepIndex + 2 }
                         => stepClass'[steps[i]] = stepClass[steps[i]] ]_allVars
    /\ [][ (lastOp' = "runSimulation" /\ currentStepIndex' = currentStepIndex)
             => \A i \in 1 .. (N - 1) : stepClass'[steps[i]] = stepClass[steps[i]] ]_allVars

\* The simulation has crossed every stage boundary.
C22_Witness ==
    /\ lastOp = "runSimulation"
    /\ currentStepIndex = N - 1
    /\ responses = 0

\* The widths ws were written in this order to a bar that held w0, and none
\* is below the one before it.
WritesNeverDecrease(w0, ws) ==
    /\ ws[1] >= w0
    /\ \A i \in 1 .. (Len(ws) - 1) : ws[i + 1] >= ws[i]

\* C23: while no poll response has been processed, no write to the bar is
\* below the write before it: the writes of the first call of runSimulation
\* follow the value startProgressPolling has just set (lines 541-552), the
\* writes of a tick follow the value the bar holds.
C23_SimulatedBarNeverDecreases ==
    [][ (responses' = 0 /\ lastOp' \in { "startProgressPolling", "runSimulation" })
          => WritesNeverDecrease(IF lastOp' = "startProgressPolling"
                                 THEN Max(width, Pct(3)) ELSE width,
                                 simWrites') ]_allVars

\* C24: right after a response with status running has been processed, the
\* steps of its completed_steps are completed and the step of its current_step
\* is active (completed when completed_steps lists it too), with or without a
\* progress greater than 0.
C24_RunningFieldsApplied ==
    (lastOp = "response" /\ lastStatus = "running") =>
        /\ \A n \in lastTask.completed_steps : stepClass[n] = "completed"
        /\ (lastTask.current_step # "" /\ lastTask.current_step \notin lastTask.completed_steps)
              => stepClass[lastTask.current_step] = "active"

\* C25: a fairly scheduled run whose endpoint answers completed or failed in
\* the end reaches the state in which displayResults or showError has been
\* called and simulationInterval and progressInterval are both null.
C25_TerminalReached ==
    <>(TerminalCalls > 0 /\ simulationInterval = NULL /\ progressInterval = NULL)

\* The terminal answer came to the last poll, after a running response had
\* handed the bar over.
C25_Witness ==
    /\ TerminalCalls = 1
    /\ lastOp = "response"
    /\ responses > 1
    /\ polls = MaxPolls
    /\ inflight = {}
    /\ simulationInterval = NULL
    /\ progressInterval = NULL

\* C26: progressInterval stops holding the interval of a run only in a call
\* of startProgressPolling or when a response with status completed or failed
\* is processed; as long as no response has been processed, neither
\* displayResults nor showError has been called and the polling interval of a
\* started run is live.
C26_PollingEndsOnlyOnTerminal ==
    /\ [][ (progressInterval # NULL /\ progressInterval' # progressInterval)
             => \/ lastOp' = "startProgressPolling"
                \/ (lastOp' = "response" /\ lastStatus' \in { "completed", "failed" }) ]_allVars
    /\ [](responses = 0 => (TerminalCalls = 0 /\ (run > 0 => progressInterval # NULL)))

\* Every request the bound allows has failed and the polling interval is
\* still live.
C26_Witness ==
    /\ polls = MaxPolls
    /\ inflight = {}
    /\ responses = 0
    /\ lastOp = "pollFailed"
    /\ progressInterval # NULL
    /\ TerminalCalls = 0

\* C27: at most one simulation interval and at most one polling interval are
\* alive, and an interval that is alive is the one its module-level handle
\* holds.
C27_NoIntervalLeaks ==
    /\ Cardinality(liveSimulation) <= 1
    /\ Cardinality(livePolling) <= 1
    /\ liveSimulation \subseteq { simulationInterval } \ { NULL }
    /\ livePolling \subseteq { progressInterval } \ { NULL }

\* The second run is polling after a response has cleared the simulation, and
\* the intervals of the first run are gone.
C27_Witness ==
    /\ run = MaxRuns
    /\ responses > 0
    /\ liveSimulation = {}
    /\ livePolling = { MaxRuns }
    /\ progressInterval = MaxRuns

\* C28: at most one progress interval of the pipeline is alive, and progress
\* never decreases.
C28_OneProgressInterval ==
    /\ [](Cardinality({ t \in ppTimers : t.kind = "progress" }) <= 1)
    /\ [][ ppProgress' >= ppProgress ]_allVars

\* The firings simulateQuickProgress needs: enough to reach 100% and to pass
\* every step.
quickTicksNeeded == Max((100 + quickIncrement - 1) \div quickIncrement, N)

C30_FeedbackUndoesNothing ==
    [][ (run > 0 /\ lastOp' \in { "feedbackFrame", "feedbackTimeout" })
          => /\ width' >= width
             /\ stepClass[steps[1]] = "completed" => stepClass'[steps[1]] = "completed" ]_allVars

====
